---------------------------- MODULE Spec2Model ----------------------------
(***************************************************************************)
(* A model of the gesture-controlled particle visualisation:               *)
(*   src/App.tsx                        App: startup, gesture loop, UI     *)
(*   src/unnamed/part_000               gestureService: detector wrapper   *)
(*   src/components/ParticleSystem.tsx  particle store and Animator        *)
(*   src/services/geometry.ts           shape generators                   *)
(*                                                                         *)
(* Numbers.  Real quantities are fixed-point integers in thousandths       *)
(* (0.05 is 50, 3.0 is 3000 unless it multiplies as a plain integer gain), *)
(* every product is rounded to the nearest thousandth where the code       *)
(* stores it.  Time is in milliseconds, angles of rotation in millionths   *)
(* of a radian (thousandth * millisecond).  Math.sin / Math.cos are        *)
(* computed in whole degrees with Bhaskara's rational approximation.       *)
(* Math.random() is a stream: the k-th call of one handler run returns     *)
(* Rand(seed, k), the seed being an input of the handler.                  *)
(***************************************************************************)
EXTENDS Integers, Sequences, FiniteSets, TLC

(***************************************************************************)
(* Bounds of the model.                                                    *)
(***************************************************************************)
NumParticles == 2

MaxFrames == 2

MaxSamples == 3

MaxSelections == 1

(***************************************************************************)
(* Program constants (in thousandths).                                     *)
(***************************************************************************)
DECAY == 50

OPEN_THRESHOLD == 600

PINCH_THRESHOLD == 50

FIST_DIST == 200

OPEN_DIST == 400

SPREAD_GAIN == 3

SMOOTHING_GAIN == 3

SPREAD_EPS == 100

IDLE_ROTATION == 100

TWINKLE_AMP == 10

NULL == "null"

(***************************************************************************)
(* Fixed-point arithmetic.                                                 *)
(***************************************************************************)
Abs(a) == IF a < 0 THEN -a ELSE a

Min(a, b) == IF a < b THEN a ELSE b

Max(a, b) == IF a > b THEN a ELSE b

\* a / b rounded to the nearest integer (half up), b > 0
RoundDiv(a, b) == (2 * a + b) \div (2 * b)

\* the product of two thousandths, in thousandths
Mul(a, b) == RoundDiv(a * b, 1000)

RECURSIVE SqrtSearch(_, _, _)
SqrtSearch(n, lo, hi) ==
    IF lo >= hi THEN lo
    ELSE LET mid == (lo + hi + 1) \div 2
         IN  IF mid * mid <= n THEN SqrtSearch(n, mid, hi)
                               ELSE SqrtSearch(n, lo, mid - 1)

\* Math.sqrt of a natural number, rounded down
Sqrt(n) == SqrtSearch(n, 0, Min(n, 46340))

\* Math.sin of whole degrees, in thousandths (Bhaskara I)
SinDeg(d) ==
    LET a == d % 360
        h == IF a <= 180 THEN a ELSE a - 180
        p == h * (180 - h)
        s == RoundDiv(4000 * p, 40500 - p)
    IN  IF a <= 180 THEN s ELSE -s

CosDeg(d) == SinDeg(d + 90)

\* thousandths of a radian to whole degrees (pi = 3.1416)
DegOfMilliRad(r) == RoundDiv(r * 1800, 31416)

\* the angle Math.random() * Math.PI * 2, in whole degrees
TurnDeg(u) == RoundDiv(u * 360, 1000)

(***************************************************************************)
(* Math.random(): the k-th call (k = 0, 1, ...) of a handler run that was  *)
(* given the stream `seed`.  Values are in [0, 1), in thousandths.         *)
(***************************************************************************)
RandTable == <<0, 720, 310, 999, 500, 130, 640, 850, 250, 910, 60>>

Seeds == {1, 4}

Rand(seed, k) == RandTable[((seed + k) % Len(RandTable)) + 1]

(***************************************************************************)
(* Shape generators (src/services/geometry.ts).  A point cloud is a flat   *)
(* array of 3 * count coordinates; index i of the code is i + 1 here.      *)
(***************************************************************************)
Flat(count, P(_)) ==
    [j \in 1..(3 * count) |-> P((j - 1) \div 3)[((j - 1) % 3) + 1]]

generateTreePoints(count, seed) ==
    LET P(i) ==
          LET angle  == RoundDiv(i * 3600, count)     \* t * PI * 20
              radius == RoundDiv(i * 3500, count)     \* t * 3.5
              x == Mul(CosDeg(angle), radius) + RoundDiv(Rand(seed, 2 * i) - 500, 2)
              y == -3000 + RoundDiv((count - i) * 7000, count)
              z == Mul(SinDeg(angle), radius) + RoundDiv(Rand(seed, 2 * i + 1) - 500, 2)
          IN  <<x, y, z>>
    IN  Flat(count, P)

generateHeartPoints(count, seed) ==
    LET P(i) ==
          LET t == TurnDeg(Rand(seed, 3 * i))
              r == Rand(seed, 3 * i + 1)
              vol == 800 + RoundDiv(r * 2, 10)        \* 0.8 + r * 0.2
              s == SinDeg(t)
              s3 == Mul(Mul(s, s), s)
              x == Mul(RoundDiv(16 * s3, 4), vol)     \* 16 * sin^3 * 0.25 * vol
              c == 13 * CosDeg(t) - 5 * CosDeg(2 * t) - 2 * CosDeg(3 * t) - CosDeg(4 * t)
              y == Mul(RoundDiv(c, 4), vol)
              z == (Rand(seed, 3 * i + 2) - 500) * 2
          IN  <<x, y, z>>
    IN  Flat(count, P)

\* randomOnSphere, drawing calls k, k + 1, k + 2 of the stream
randomOnSphere(seed, k) ==
    LET theta  == TurnDeg(Rand(seed, k))
        cosPhi == 2 * Rand(seed, k + 1) - 1000        \* phi = acos(2u - 1)
        sinPhi == Sqrt(1000000 - cosPhi * cosPhi)
        r      == 4000 + Rand(seed, k + 2)
    IN  << Mul(Mul(r, sinPhi), CosDeg(theta)),
           Mul(Mul(r, sinPhi), SinDeg(theta)),
           Mul(r, cosPhi) >>

generateSpherePoints(count, seed) ==
    LET P(i) == randomOnSphere(seed, 3 * i)
    IN  Flat(count, P)

generateStarPoints(count, seed) ==
    LET P(i) ==
          LET u == Rand(seed, 4 * i)
              theta == TurnDeg(u)
              spike == Abs(SinDeg(RoundDiv(u * 900, 1000)))   \* |sin(theta * 2.5)|
              r == 3000 + RoundDiv(spike * 25, 10)
              x == Mul(Mul(r, CosDeg(theta)), Rand(seed, 4 * i + 1))
              y == Mul(Mul(r, SinDeg(theta)), Rand(seed, 4 * i + 2))
              z == RoundDiv((Rand(seed, 4 * i + 3) - 500) * 15, 10)
          IN  <<x, y, z>>
    IN  Flat(count, P)

generateFlowerPoints(count, seed) ==
    LET P(i) ==
          LET theta == TurnDeg(Rand(seed, 3 * i))
              r == Mul(4 * CosDeg(4 * theta), Rand(seed, 3 * i + 1))
              x == Mul(r, CosDeg(theta))
              y == Mul(r, SinDeg(theta))
              z == RoundDiv(SinDeg(DegOfMilliRad(r)) * 15, 10)
                     + (Rand(seed, 3 * i + 2) - 500)
          IN  <<x, y, z>>
    IN  Flat(count, P)

(***************************************************************************)
(* The detector boundary.  A hand is a sequence of landmarks [x, y]; index *)
(* idx of the code is idx + 1 here.  Hand(cx, reach, gap, n) is a hand of  *)
(* n landmarks whose wrist is at (cx, 800), whose knuckles are at cx,      *)
(* whose finger tips are `reach` above the wrist and whose thumb tip is    *)
(* `gap` beside the index tip.                                             *)
(***************************************************************************)
Hand(cx, reach, gap, n) ==
    [k \in 1..n |->
        IF k - 1 = 4 THEN [x |-> cx + gap, y |-> 800 - reach]
        ELSE IF k - 1 \in {8, 12, 16, 20} THEN [x |-> cx, y |-> 800 - reach]
        ELSE IF k - 1 = 0 THEN [x |-> cx, y |-> 800]
        ELSE [x |-> cx, y |-> 700]]

OpenHand == Hand(500, 325, 100, 21)

WideHand == Hand(500, 420, 100, 21)

HalfHandLeft == Hand(800, 320, 0, 21)

FistRight == Hand(200, 214, 30, 21)

ShortHand == Hand(500, 325, 100, 20)

\* a fist at the place of FistRight, closed a little further
LooseFist == Hand(200, 208, 30, 21)

Hands == {OpenHand, WideHand, HalfHandLeft, FistRight, ShortHand}

\* what the detector and the video element give one gesture sample:
\* the video has dimensions or not, and the hands found in the frame
Detections ==
    {[ready |-> FALSE, landmarks |-> <<>>], [ready |-> TRUE, landmarks |-> <<>>]}
      \cup {[ready |-> TRUE, landmarks |-> <<h>>] : h \in Hands}

\* a detection as the specification classes it
KindOf(d) ==
    IF ~d.ready \/ Len(d.landmarks) = 0 THEN "no hand"
    ELSE IF Len(d.landmarks[1]) = 21 THEN "hand" ELSE "malformed"

\* the null result of detectHands
NullResult == [null |-> TRUE, landmarks |-> <<>>]

\* detectHands(video): null without a landmarker or video dimensions
detectHands(landmarker, d) ==
    IF landmarker = NULL THEN NullResult
    ELSE IF ~d.ready THEN NullResult
    ELSE [null |-> FALSE, landmarks |-> d.landmarks]

(***************************************************************************)
(* The gesture interpreter: the body of predictWebcam.                     *)
(***************************************************************************)
InitialGesture ==
    [isOpen |-> FALSE, openness |-> 0, rotationX |-> 500,
     pinchDistance |-> 0, isPinching |-> FALSE, handDetected |-> FALSE]

TIPS == <<4, 8, 12, 16, 20>>

\* landmarks[idx] is undefined: reading .x of it throws a TypeError
Missing(lm, idx) == idx + 1 > Len(lm)

Throws(lm) == \E idx \in {0, 4, 8, 9, 12, 16, 20} : Missing(lm, idx)

Dist(a, b) == Sqrt((a.x - b.x) * (a.x - b.x) + (a.y - b.y) * (a.y - b.y))

RECURSIVE SumDist(_, _)
SumDist(lm, k) ==
    IF k = 0 THEN 0
    ELSE SumDist(lm, k - 1) + Dist(lm[TIPS[k] + 1], lm[1])

IsOpenOfBad(openness) == openness >= OPEN_THRESHOLD

IsOpenOf(openness) == openness > OPEN_THRESHOLD

\* the record written when a hand is present (lines 72-110)
Interpret(lm) ==
    LET avgDist     == RoundDiv(SumDist(lm, 5), 5)
        opennessRaw == RoundDiv((avgDist - FIST_DIST) * 1000, OPEN_DIST - FIST_DIST)
        openness    == Min(Max(opennessRaw, 0), 1000)
        rotationX   == 1000 - lm[9 + 1].x
        pinchDist   == Dist(lm[4 + 1], lm[8 + 1])
    IN  [isOpen |-> IsOpenOf(openness), openness |-> openness,
         rotationX |-> rotationX, pinchDistance |-> pinchDist,
         isPinching |-> pinchDist < PINCH_THRESHOLD, handDetected |-> TRUE]

DecayNoFloor(openness) == openness - DECAY

Decay(openness) == Max(0, openness - DECAY)

\* the in-place update when no hand is found (lines 117-118)
NoHand(g) == [g EXCEPT !.handDetected = FALSE, !.openness = Decay(g.openness)]

\* rotationX.toFixed(2), in hundredths
ToFixed2(v) == RoundDiv(v, 10)

\* the text handed to setDebugGesture
DebugText(g) ==
    << IF g.openness > OPEN_THRESHOLD THEN "OPEN" ELSE "CLOSED",
       ToFixed2(g.rotationX),
       IF g.isPinching THEN "PINCH" ELSE "" >>

(***************************************************************************)
(* The particle store and the Animator (ParticleSystem.tsx).               *)
(***************************************************************************)
ShapeType == {"TREE", "HEART", "STAR", "SPHERE", "FLOWER"}

\* a shape prop that is no member of ShapeType, as plain JavaScript can pass
INVALID_SHAPE == "CUBE"

MATTE_GREEN == "#2F5A2F"

GOLD == "#FFD700"

CHRISTMAS_RED == "#C41E3A"

\* the values the color picker delivers
PickerColors == {MATTE_GREEN, "#3366FF"}

\* deltaTime of a frame, in milliseconds
Deltas == {50, 400}

PointsOfBad(shape, count, seed) ==
    CASE shape = "HEART"  -> generateHeartPoints(count, seed)
      [] shape = "STAR"   -> generateStarPoints(count, seed)
      [] shape = "SPHERE" -> generateSpherePoints(count, seed)
      [] shape = "FLOWER" -> generateFlowerPoints(count, seed)
      [] shape = "TREE"   -> generateTreePoints(count, seed)
      [] OTHER            -> generateSpherePoints(count, seed)

\* the switch of the shape effect (lines 73-81)
PointsOf(shape, count, seed) ==
    CASE shape = "HEART"  -> generateHeartPoints(count, seed)
      [] shape = "STAR"   -> generateStarPoints(count, seed)
      [] shape = "SPHERE" -> generateSpherePoints(count, seed)
      [] shape = "FLOWER" -> generateFlowerPoints(count, seed)
      [] OTHER            -> generateTreePoints(count, seed)

CopyIntoBad(target, newPos) ==
    [j \in DOMAIN target |-> IF j < Len(target) THEN newPos[j] ELSE target[j]]

\* the copy loop of the shape effect (lines 84-86)
CopyInto(target, newPos) == [j \in DOMAIN target |-> newPos[j]]

\* the palette draw of useMemo (lines 49-52); call 2N + 2i of the stream
InitialColor(r) ==
    IF r < 600 THEN MATTE_GREEN ELSE IF r < 800 THEN GOLD ELSE CHRISTMAS_RED

\* the size draw of useMemo (line 59); call 2N + 2i + 1 of the stream
InitialSize(r) == IF r < 100 THEN 400 ELSE 150

\* the Math.random() calls one generator run makes
DrawsOf(shape, count) ==
    CASE shape = "STAR" -> 4 * count
      [] shape \in {"HEART", "SPHERE", "FLOWER"} -> 3 * count
      [] OTHER -> 2 * count

\* the loop of the color effect (lines 96-103), from call k of the stream
Retint(count, baseColor, seed, k) ==
    [i \in 1..count |-> IF Rand(seed, k + i - 1) > 300 THEN baseColor ELSE GOLD]

LerpBad(current, target, lerpSpeed) == current + Mul(current - target, lerpSpeed)

\* current += (target - current) * lerpSpeed (lines 140-142)
Lerp(current, target, lerpSpeed) == current + Mul(target - current, lerpSpeed)

SpreadFactor(g) == SPREAD_GAIN * g.openness

LerpSpeed(delta) == SMOOTHING_GAIN * delta

\* the target of coordinate j in a frame (lines 127-137); call j - 1 of the stream
AdjustedTarget(target, j, spreadFactor, seed) ==
    IF spreadFactor > SPREAD_EPS
      THEN target[j] + Mul(target[j], spreadFactor)
                     + Mul(Rand(seed, j - 1) - 500, spreadFactor)
      ELSE target[j]

\* Math.sin(time + ix) * 0.01 (line 146), ix = 3 * i
Twinkle(time, i) == Mul(SinDeg(DegOfMilliRad(time + 3000 * i)), TWINKLE_AMP)

\* the particle loop of a frame (lines 121-147)
StepPositions(current, target, g, delta, seed, time) ==
    [j \in DOMAIN current |->
        Lerp(current[j], AdjustedTarget(target, j, SpreadFactor(g), seed), LerpSpeed(delta))
          + (IF (j - 1) % 3 = 1 THEN Twinkle(time, (j - 1) \div 3) ELSE 0)]

RotationDeltaBad(g, delta) ==
    IF g.handDetected THEN (500 - g.rotationX) * 2 * delta * 2
                      ELSE IDLE_ROTATION * delta

\* what a frame adds to rotation.y (lines 156-162), in millionths
RotationDelta(g, delta) ==
    IF g.handDetected THEN (g.rotationX - 500) * 2 * delta * 2
                      ELSE IDLE_ROTATION * delta

(***************************************************************************)
(* State.                                                                  *)
(***************************************************************************)
VARIABLES
    phase,            \* "rendered" (first render done), "mounted", "unmounted"
    pc,               \* where the startup sequence and the gesture loop stand
    handLandmarker,   \* the module variable of gestureService
    loading, alertShown, isSidebarOpen,
    activeShape, particleColor, debugGesture,
    renderPending,    \* a state change React has not rendered yet
    heap,             \* the GestureState objects, by address
    gestureRef,       \* gestureRef.current: an address
    requestRef,       \* requestRef.current: a requestAnimationFrame id, 0 unset
    rafPending,       \* the id of the queued predictWebcam callback, 0 none
    samples,          \* gesture samples taken (calls of detectHands)
    gesture, shape, customColor,     \* the props ParticleSystem last rendered with
    currentPositions, targetPositions, colors, sizes,
    rotationY, elapsedTime, frames,
    selections,
    decayFrom,        \* history: openness written by the last hand-present sample
    noHandRun,        \* history: no-hand samples since then
    lastSample,       \* history: what the last gesture sample was given
    sinceRetarget     \* history: frames run since the shape effect last ran

appVars == <<phase, pc, handLandmarker, loading, alertShown, isSidebarOpen,
             activeShape, particleColor, debugGesture, renderPending>>

gestureVars == <<heap, gestureRef, requestRef, rafPending, samples, decayFrom, noHandRun,
                 lastSample>>

propVars == <<gesture, shape, customColor>>

storeVars == <<currentPositions, targetPositions, colors, sizes>>

sceneVars == <<rotationY, elapsedTime, frames>>

vars == <<appVars, gestureVars, propVars, storeVars, sceneVars,
          selections, sinceRetarget>>

\* React attaches the refs of mounted elements and nulls them on unmount
videoRef == IF phase = "mounted" THEN "video" ELSE NULL

pointsRef == IF phase = "mounted" THEN "points" ELSE NULL

\* useMemo of ParticleSystem (lines 24-68), one stream for all its draws
InitialStore(seed) ==
    LET initialTree == generateTreePoints(NumParticles, seed)
    IN  [current |-> initialTree,
         target  |-> initialTree,
         cols    |-> [i \in 1..NumParticles |->
                        InitialColor(Rand(seed, 2 * NumParticles + 2 * (i - 1)))],
         szs     |-> [i \in 1..NumParticles |->
                        InitialSize(Rand(seed, 2 * NumParticles + 2 * (i - 1) + 1))]]

\* the shape effect (lines 71-87)
ShapeEffect(target, shp, seed) == CopyInto(target, PointsOf(shp, NumParticles, seed))

\* the color effect (lines 90-105), drawing from call k of the stream
ColorEffect(ref, cols, color, seed, k) ==
    IF ref = NULL THEN cols ELSE Retint(NumParticles, color, seed, k)

\* the state after the first render of App and ParticleSystem
FirstRender(seed) ==
    /\ phase = "rendered"
    /\ pc = "idle"
    /\ handLandmarker = NULL
    /\ loading = TRUE
    /\ alertShown = FALSE
    /\ isSidebarOpen = TRUE
    /\ activeShape = "TREE"
    /\ particleColor = MATTE_GREEN
    /\ debugGesture = <<"No Hand">>
    /\ renderPending = FALSE
    /\ heap = [a \in 1..2 |-> InitialGesture]
    /\ gestureRef = 1
    /\ requestRef = 0
    /\ rafPending = 0
    /\ samples = 0
    /\ gesture = 1
    /\ shape = "TREE"
    /\ customColor = MATTE_GREEN
    /\ currentPositions = InitialStore(seed).current
    /\ targetPositions = InitialStore(seed).target
    /\ colors = InitialStore(seed).cols
    /\ sizes = InitialStore(seed).szs
    /\ rotationY = 0
    /\ elapsedTime = 0
    /\ frames = 0
    /\ selections = 0
    /\ decayFrom = 0
    /\ noHandRun = 0
    /\ lastSample = "none yet"
    /\ sinceRetarget = 0

(***************************************************************************)
(* Mount: the commit of the first render.  The refs are attached, then the *)
(* effects run: the shape effect and the color effect of ParticleSystem,   *)
(* and the mount effect of App, which calls init().                        *)
(***************************************************************************)
Mount(seed) ==
    /\ phase = "rendered"
    /\ phase' = "mounted"
    /\ targetPositions' = ShapeEffect(targetPositions, shape, seed)
    /\ colors' = ColorEffect("points", colors, customColor, seed,
                             DrawsOf(shape, NumParticles))
    /\ pc' = "init"
    /\ sinceRetarget' = 0
    /\ UNCHANGED <<handLandmarker, loading, alertShown, isSidebarOpen, activeShape,
                   particleColor, debugGesture, renderPending, gestureVars, propVars,
                   currentPositions, sizes, sceneVars, selections>>

DirtyBad(old, new) == renderPending

\* a setState of a mounted component schedules a render unless the value is the same
Dirty(old, new) == renderPending \/ (phase = "mounted" /\ old # new)

(***************************************************************************)
(* init() resumes after initializeHandLandmarker (lines 38-44); on success *)
(* it runs startCamera up to its await (lines 54-57).                      *)
(***************************************************************************)
InitResolve(success, hasMediaDevices) ==
    /\ pc = "init"
    /\ IF success
         THEN /\ handLandmarker' = "landmarker"
              /\ loading' = FALSE
              /\ renderPending' = Dirty(loading, FALSE)
              /\ pc' = IF hasMediaDevices THEN "camera" ELSE "noCamera"
              /\ UNCHANGED alertShown
         ELSE /\ alertShown' = TRUE
              /\ pc' = "initFailed"
              /\ UNCHANGED <<handLandmarker, loading, renderPending>>
    /\ UNCHANGED <<phase, isSidebarOpen, activeShape, particleColor, debugGesture,
                   gestureVars, propVars, storeVars, sceneVars, selections, sinceRetarget>>

\* startCamera resumes after getUserMedia (lines 58-62), or its promise rejects
CameraResolve(granted) ==
    /\ pc = "camera"
    /\ pc' = IF ~granted THEN "cameraFailed"
             ELSE IF videoRef # NULL THEN "waitLoaded" ELSE "cameraDetached"
    /\ UNCHANGED <<phase, handLandmarker, loading, alertShown, isSidebarOpen, activeShape,
                   particleColor, debugGesture, renderPending,
                   gestureVars, propVars, storeVars, sceneVars, selections, sinceRetarget>>

\* the address of a new GestureState object: one no reference holds
NewAddress == IF gestureRef # gesture THEN gestureRef ELSE 3 - gestureRef

(***************************************************************************)
(* predictWebcam (lines 66-123), run on the detection d.                   *)
(***************************************************************************)
predictWebcam(d) ==
    IF videoRef = NULL
      THEN \* line 67
           /\ pc' = "stopped"
           /\ rafPending' = 0
           /\ UNCHANGED <<heap, gestureRef, requestRef, samples, decayFrom, noHandRun,
                          lastSample, debugGesture, renderPending>>
      ELSE LET results == detectHands(handLandmarker, d)
           IN  /\ samples < MaxSamples
               /\ samples' = samples + 1
               /\ lastSample' = KindOf(d)
               /\ IF ~results.null /\ Len(results.landmarks) > 0
                    THEN LET landmarks == results.landmarks[1]
                         IN  IF Throws(landmarks)
                               THEN \* a TypeError leaves the function before line 103
                                    /\ pc' = "crashed"
                                    /\ rafPending' = 0
                                    /\ UNCHANGED <<heap, gestureRef, requestRef, decayFrom,
                                                   noHandRun, debugGesture, renderPending>>
                               ELSE LET g == Interpret(landmarks)
                                    IN  /\ heap' = [heap EXCEPT ![NewAddress] = g]
                                        /\ gestureRef' = NewAddress
                                        /\ debugGesture' = DebugText(g)
                                        /\ renderPending' = Dirty(debugGesture, DebugText(g))
                                        /\ decayFrom' = g.openness
                                        /\ noHandRun' = 0
                                        /\ requestRef' = samples + 1
                                        /\ rafPending' = samples + 1
                                        /\ pc' = "running"
                    ELSE /\ heap' = [heap EXCEPT ![gestureRef] = NoHand(@)]
                         /\ debugGesture' = <<"No Hand Detected">>
                         /\ renderPending' = Dirty(debugGesture, <<"No Hand Detected">>)
                         /\ noHandRun' = noHandRun + 1
                         /\ requestRef' = samples + 1
                         /\ rafPending' = samples + 1
                         /\ pc' = "running"
                         /\ UNCHANGED <<gestureRef, decayFrom>>

\* the video element fires loadeddata: onloadeddata = predictWebcam (line 61)
LoadedData(d) ==
    /\ pc = "waitLoaded"
    /\ predictWebcam(d)
    /\ UNCHANGED <<phase, handLandmarker, loading, alertShown, isSidebarOpen, activeShape,
                   particleColor, propVars, storeVars, sceneVars, selections, sinceRetarget>>

\* the browser runs the callback queued by line 122
GestureFrame(d) ==
    /\ rafPending # 0
    /\ predictWebcam(d)
    /\ UNCHANGED <<phase, handLandmarker, loading, alertShown, isSidebarOpen, activeShape,
                   particleColor, propVars, storeVars, sceneVars, selections, sinceRetarget>>

(***************************************************************************)
(* React renders App and ParticleSystem: the props are read (line 243-247, *)
(* gesture = gestureRef.current) and the effects whose dependency changed  *)
(* run.  The object no reference holds any more is collected.              *)
(***************************************************************************)
Render(seed) ==
    /\ phase = "mounted"
    /\ renderPending
    /\ renderPending' = FALSE
    /\ gesture' = gestureRef
    /\ heap' = [a \in 1..2 |-> IF a = gestureRef THEN heap[a] ELSE InitialGesture]
    /\ shape' = activeShape
    /\ customColor' = particleColor
    /\ targetPositions' = IF activeShape # shape
                            THEN ShapeEffect(targetPositions, activeShape, seed)
                            ELSE targetPositions
    /\ colors' = IF particleColor # customColor
                   THEN ColorEffect(pointsRef, colors, particleColor, seed,
                                    IF activeShape # shape
                                      THEN DrawsOf(activeShape, NumParticles) ELSE 0)
                   ELSE colors
    /\ sinceRetarget' = IF activeShape # shape THEN 0 ELSE sinceRetarget
    /\ UNCHANGED <<phase, pc, handLandmarker, loading, alertShown, isSidebarOpen,
                   activeShape, particleColor, debugGesture,
                   gestureRef, requestRef, rafPending, samples, decayFrom, noHandRun,
                   lastSample, currentPositions, sizes, sceneVars, selections>>

(***************************************************************************)
(* useFrame (lines 109-163): one Animator frame.                           *)
(***************************************************************************)
Frame(delta, seed) ==
    /\ pointsRef # NULL
    /\ frames < MaxFrames
    /\ frames' = frames + 1
    /\ elapsedTime' = elapsedTime + delta
    /\ currentPositions' = StepPositions(currentPositions, targetPositions, heap[gesture],
                                         delta, seed, elapsedTime + delta)
    /\ rotationY' = rotationY + RotationDelta(heap[gesture], delta)
    /\ sinceRetarget' = sinceRetarget + 1
    /\ UNCHANGED <<appVars, gestureVars, propVars, targetPositions, colors, sizes,
                   selections>>

\* a shape button (line 173), or a caller passing any other identifier
SelectShape(s) ==
    /\ phase = "mounted"
    /\ selections < MaxSelections
    /\ selections' = selections + 1
    /\ activeShape' = s
    /\ renderPending' = Dirty(activeShape, s)
    /\ UNCHANGED <<phase, pc, handLandmarker, loading, alertShown, isSidebarOpen,
                   particleColor, debugGesture, gestureVars, propVars, storeVars,
                   sceneVars, sinceRetarget>>

\* the color picker (line 192)
SelectColor(c) ==
    /\ phase = "mounted"
    /\ selections < MaxSelections
    /\ selections' = selections + 1
    /\ particleColor' = c
    /\ renderPending' = Dirty(particleColor, c)
    /\ UNCHANGED <<phase, pc, handLandmarker, loading, alertShown, isSidebarOpen,
                   activeShape, debugGesture, gestureVars, propVars, storeVars,
                   sceneVars, sinceRetarget>>

\* the sidebar button (line 215)
ToggleSidebar ==
    /\ phase = "mounted"
    /\ isSidebarOpen' = ~isSidebarOpen
    /\ renderPending' = TRUE
    /\ UNCHANGED <<phase, pc, handLandmarker, loading, alertShown, activeShape,
                   particleColor, debugGesture, gestureVars, propVars, storeVars,
                   sceneVars, selections, sinceRetarget>>

CleanupBad(request, pending) == pending

\* the cleanup of the mount effect (line 49)
Cleanup(request, pending) ==
    IF request # 0 /\ pending = request THEN 0 ELSE pending

\* App is unmounted: refs are nulled, the cleanup runs, the Canvas stops its loop
Teardown ==
    /\ phase = "mounted"
    /\ phase' = "unmounted"
    /\ rafPending' = Cleanup(requestRef, rafPending)
    /\ renderPending' = FALSE
    /\ UNCHANGED <<pc, handLandmarker, loading, alertShown, isSidebarOpen, activeShape,
                   particleColor, debugGesture, heap, gestureRef, requestRef, samples,
                   decayFrom, noHandRun, lastSample, propVars, storeVars, sceneVars,
                   selections, sinceRetarget>>

(***************************************************************************)
(* Spec: the life of App, from its first render to its teardown, with the  *)
(* gesture loop, React's renders and the Animator's frames interleaved.    *)
(* The frames of this specification run at one deltaTime and draw one      *)
(* stream; the shape and the color are not changed.                        *)
(***************************************************************************)
AppDeltas == {50}

AppSeeds == {1}

Next ==
    \/ \E seed \in AppSeeds : Mount(seed)
    \/ \E ok \in BOOLEAN, media \in BOOLEAN : InitResolve(ok, media)
    \/ \E granted \in BOOLEAN : CameraResolve(granted)
    \/ \E d \in Detections : LoadedData(d)
    \/ \E d \in Detections : GestureFrame(d)
    \/ \E seed \in AppSeeds : Render(seed)
    \/ \E delta \in AppDeltas, seed \in AppSeeds : Frame(delta, seed)
    \/ ToggleSidebar
    \/ Teardown

Init == \E seed \in AppSeeds : FirstRender(seed)

Spec == Init /\ [][Next]_vars
(***************************************************************************)
(* SpecParticles: the particle store and the Animator under shape and      *)
(* color changes, from a state in which App is mounted, startup has        *)
(* succeeded and the gesture loop has taken its samples: a hand-present    *)
(* sample, `misses` no-hand samples, and the render that followed.  The    *)
(* gesture loop takes no further sample in this specification.             *)
(***************************************************************************)
RECURSIVE NoHandTimes(_, _)
NoHandTimes(g, n) == IF n = 0 THEN g ELSE NoHand(NoHandTimes(g, n - 1))

Started(seed0, seed1, hand, misses) ==
    /\ phase = "mounted"
    /\ pc = "running"
    /\ handLandmarker = "landmarker"
    /\ loading = FALSE
    /\ alertShown = FALSE
    /\ isSidebarOpen = TRUE
    /\ activeShape = "TREE"
    /\ particleColor = MATTE_GREEN
    /\ debugGesture = IF misses = 0 THEN DebugText(Interpret(hand))
                                    ELSE <<"No Hand Detected">>
    /\ renderPending = FALSE
    /\ heap = [a \in 1..2 |-> IF a = 2 THEN NoHandTimes(Interpret(hand), misses)
                                       ELSE InitialGesture]
    /\ gestureRef = 2
    /\ requestRef = 1 + misses
    /\ rafPending = 1 + misses
    /\ samples = 1 + misses
    /\ gesture = 2
    /\ shape = "TREE"
    /\ customColor = MATTE_GREEN
    /\ currentPositions = InitialStore(seed0).current
    /\ targetPositions = ShapeEffect(InitialStore(seed0).target, "TREE", seed1)
    /\ colors = ColorEffect("points", InitialStore(seed0).cols, MATTE_GREEN, seed1,
                            DrawsOf("TREE", NumParticles))
    /\ sizes = InitialStore(seed0).szs
    /\ rotationY = 0
    /\ elapsedTime = 0
    /\ frames = 0
    /\ selections = 0
    /\ decayFrom = Interpret(hand).openness
    /\ noHandRun = misses
    /\ lastSample = IF misses = 0 THEN "hand" ELSE "no hand"
    /\ sinceRetarget = 0

StartGestures == {<<HalfHandLeft, 0>>, <<FistRight, 0>>, <<FistRight, 1>>}

InitParticles ==
    \E seed0 \in Seeds, h \in StartGestures :
        \E seed1 \in Seeds \ {seed0} : Started(seed0, seed1, h[1], h[2])

NextParticles ==
    \/ \E delta \in Deltas, seed \in Seeds : Frame(delta, seed)
    \/ \E s \in ShapeType \cup {INVALID_SHAPE} : SelectShape(s)
    \/ \E c \in PickerColors : SelectColor(c)
    \/ \E seed \in Seeds : Render(seed)

SpecParticles == InitParticles /\ [][NextParticles]_vars
(***************************************************************************)
(* SpecFade: the hand has left.  App is mounted and started, the gesture   *)
(* loop has sampled a hand and, from here on, finds none.  The initial     *)
(* states are those of SpecParticles whose last hand was a fist, and the   *)
(* states in which a held fist was sampled twice: the first sample was     *)
(* rendered, the second wrote a new record with the same debug text, so no *)
(* render followed and the Animator still holds the first record.  The     *)
(* browser runs a queued animation-frame callback, React renders a         *)
(* scheduled update, and the Canvas runs its frames: weak fairness each.   *)
(***************************************************************************)
Held(seed0, seed1, first, second) ==
    /\ phase = "mounted"
    /\ pc = "running"
    /\ handLandmarker = "landmarker"
    /\ loading = FALSE
    /\ alertShown = FALSE
    /\ isSidebarOpen = TRUE
    /\ activeShape = "TREE"
    /\ particleColor = MATTE_GREEN
    /\ debugGesture = DebugText(Interpret(second))
    /\ renderPending = (DebugText(Interpret(second)) # DebugText(Interpret(first)))
    /\ heap = [a \in 1..2 |-> IF a = 2 THEN Interpret(first) ELSE Interpret(second)]
    /\ gestureRef = 1
    /\ requestRef = 2
    /\ rafPending = 2
    /\ samples = 2
    /\ gesture = 2
    /\ shape = "TREE"
    /\ customColor = MATTE_GREEN
    /\ currentPositions = InitialStore(seed0).current
    /\ targetPositions = ShapeEffect(InitialStore(seed0).target, "TREE", seed1)
    /\ colors = ColorEffect("points", InitialStore(seed0).cols, MATTE_GREEN, seed1,
                            DrawsOf("TREE", NumParticles))
    /\ sizes = InitialStore(seed0).szs
    /\ rotationY = 0
    /\ elapsedTime = 0
    /\ frames = 0
    /\ selections = 0
    /\ decayFrom = Interpret(second).openness
    /\ noHandRun = 0
    /\ lastSample = "hand"
    /\ sinceRetarget = 0

\* the samples that find no hand: video without dimensions, or an empty result
NoHandDetections == {d \in Detections : KindOf(d) = "no hand"}

InitFade ==
    \E seed0 \in Seeds :
        \E seed1 \in Seeds \ {seed0} :
            \/ \E misses \in {0, 1} : Started(seed0, seed1, FistRight, misses)
            \/ Held(seed0, seed1, FistRight, LooseFist)

NoHandSample == \E d \in NoHandDetections : GestureFrame(d)

ReactRender == \E seed \in Seeds : Render(seed)

AnimatorFrame == \E delta \in Deltas, seed \in Seeds : Frame(delta, seed)

NextFade ==
    \/ NoHandSample
    \/ ReactRender
    \/ AnimatorFrame

SpecFade ==
    /\ InitFade
    /\ [][NextFade]_vars
    /\ WF_vars(NoHandSample)
    /\ WF_vars(ReactRender)
    /\ WF_vars(AnimatorFrame)
(***************************************************************************)
(* Properties.                                                             *)
(***************************************************************************)
\* what a frame reads of a gesture record
FrameView(g) == <<g.openness, g.rotationX, g.handDetected>>

FrameStep == frames' # frames

SampleStep == samples' # samples

\* C1: in every Animator frame the gesture record the frame reads (its prop
\* `gesture`) has the openness, rotationX and handDetected of the record the
\* gesture loop wrote last (gestureRef.current).
C1_FrameReadsLatestGesture ==
    [][FrameStep => FrameView(heap[gesture]) = FrameView(heap[gestureRef])]_vars

\* C2: after N consecutive no-hand samples that started from openness v,
\* openness is max(0, v - N * 0.05) (hence never above its previous value)
\* and handDetected is false.
C2_GestureDecay ==
    /\ heap[gestureRef].openness = Max(0, decayFrom - noHandRun * DECAY)
    /\ noHandRun > 0 => ~heap[gestureRef].handDetected

\* reached: a run of no-hand samples went past the floor
C2_Witness ==
    /\ noHandRun >= 2
    /\ decayFrom > 0
    /\ decayFrom - noHandRun * DECAY < 0
    /\ heap[gestureRef].openness = 0

\* C3: a gesture sample with a malformed landmark list is handled as "no
\* hand" (handDetected false, openness decayed) and the next gesture callback
\* is scheduled.
C3_MalformedSampleIsNoHand ==
    [][(SampleStep /\ lastSample' = "malformed")
         => /\ rafPending' # 0
            /\ ~heap'[gestureRef'].handDetected
            /\ heap'[gestureRef'].openness = Decay(heap[gestureRef].openness)]_vars

\* C4: once App is torn down no gesture callback is queued, none is queued
\* again, and no further gesture sample is taken.
C4_TeardownEndsLoop ==
    [][phase' = "unmounted"
         => /\ rafPending' = 0
            /\ phase = "unmounted" => (samples' = samples /\ requestRef' = requestRef)]_vars

\* reached: teardown cancelled the queued callback of a running gesture loop
C4_Witness ==
    /\ phase = "unmounted"
    /\ pc = "running"
    /\ requestRef # 0
    /\ rafPending = 0

\* initializeHandLandmarker returned false, or getUserMedia rejected
StartupFailed(p) == p \in {"initFailed", "cameraFailed"}

\* C5: when the detector or the camera has failed to start, a blocking
\* notice has been shown, no gesture sample has been taken, and no Animator
\* frame runs from then on.
C5_StartupFailureBlocks ==
    [][StartupFailed(pc')
         => /\ alertShown'
            /\ samples' = 0
            /\ StartupFailed(pc) => frames' = frames]_vars

\* C6, as claimed: in every reachable gesture state isOpen is true exactly
\* when openness > 0.6.
C6_IsOpenDerived ==
    heap[gestureRef].isOpen <=> heap[gestureRef].openness > OPEN_THRESHOLD

\* C6, amended: while a hand is detected isOpen is true exactly when
\* openness > 0.6; after no-hand samples isOpen is still the value derived
\* from the openness of the last hand-present sample.
C6_IsOpenOfLastHand ==
    /\ heap[gestureRef].handDetected
         => (heap[gestureRef].isOpen <=> heap[gestureRef].openness > OPEN_THRESHOLD)
    /\ ~heap[gestureRef].handDetected
         => (heap[gestureRef].isOpen <=> decayFrom > OPEN_THRESHOLD)

\* reached: openness has decayed below the threshold and isOpen is still true
C6_Witness ==
    /\ heap[gestureRef].isOpen
    /\ ~heap[gestureRef].handDetected
    /\ heap[gestureRef].openness <= OPEN_THRESHOLD
    /\ noHandRun >= 1

\* deltaTime of the frame being taken, in milliseconds
FrameDelta == elapsedTime' - elapsedTime

SmallDelta == LerpSpeed(FrameDelta) < 1000

\* the adjusted target of coordinate j without the per-frame random jitter
FixedTarget(j) ==
    IF SpreadFactor(heap[gesture]) > SPREAD_EPS
      THEN targetPositions[j] + Mul(targetPositions[j], SpreadFactor(heap[gesture]))
      ELSE targetPositions[j]

\* the step (distance * lerpSpeed) is at least the resolution of a stored value
Resolvable(d) == d * LerpSpeed(FrameDelta) >= 1000

\* C7, as claimed: in a frame with 3 * deltaTime < 1 every coordinate of every
\* particle gets strictly closer to its fixed adjusted target, until converged.
C7_SmoothingConverges ==
    [][(FrameStep /\ SmallDelta)
         => \A j \in DOMAIN currentPositions :
              Resolvable(Abs(FixedTarget(j) - currentPositions[j]))
                => Abs(FixedTarget(j) - currentPositions'[j])
                     < Abs(FixedTarget(j) - currentPositions[j])]_vars

\* C7, amended: in a frame with 3 * deltaTime < 1 that does not take the
\* spread branch, the x and z coordinates of every particle move toward
\* targetBase without passing it, never get farther from it, and get strictly
\* closer whenever the step is resolvable.
C7_SmoothingXZ ==
    [][(FrameStep /\ SmallDelta /\ SpreadFactor(heap[gesture]) <= SPREAD_EPS)
         => \A j \in DOMAIN currentPositions :
              (j - 1) % 3 # 1
                => LET t  == targetPositions[j]
                       d  == Abs(t - currentPositions[j])
                       d2 == Abs(t - currentPositions'[j])
                   IN  /\ d2 <= d
                       /\ Resolvable(d) => d2 < d
                       /\ (t - currentPositions[j]) * (t - currentPositions'[j]) >= 0]_vars

\* reached: small-deltaTime frames without spread have run and an x or z
\* coordinate is still on its way to targetBase
C7_Witness ==
    /\ frames >= 1
    /\ elapsedTime = 50 * frames
    /\ sinceRetarget = frames
    /\ SpreadFactor(heap[gesture]) <= SPREAD_EPS
    /\ \E j \in DOMAIN currentPositions :
         /\ (j - 1) % 3 # 1
         /\ currentPositions[j] # targetPositions[j]
         /\ \A seed \in Seeds : currentPositions[j] # InitialStore(seed).current[j]

\* C8: with a hand detected a frame adds a positive rotation when
\* rotationX > 0.5 and a negative one when rotationX < 0.5; without a hand it
\* adds the idle rotation 0.1 * deltaTime whatever rotationX is.
C8_RotationSign ==
    [][FrameStep
         => LET g == heap[gesture]
                added == rotationY' - rotationY
            IN  /\ (g.handDetected /\ g.rotationX > 500) => added > 0
                /\ (g.handDetected /\ g.rotationX < 500) => added < 0
                /\ ~g.handDetected => added = IDLE_ROTATION * FrameDelta]_vars

\* reached: frames have turned the scene backwards for a hand left of centre
C8_Witness ==
    /\ frames >= 1
    /\ heap[gesture].handDetected
    /\ heap[gesture].rotationX < 500
    /\ rotationY < 0

\* the generator that belongs to a shape of ShapeType
Generated(s, seed) ==
    CASE s = "TREE"   -> generateTreePoints(NumParticles, seed)
      [] s = "HEART"  -> generateHeartPoints(NumParticles, seed)
      [] s = "STAR"   -> generateStarPoints(NumParticles, seed)
      [] s = "SPHERE" -> generateSpherePoints(NumParticles, seed)
      [] s = "FLOWER" -> generateFlowerPoints(NumParticles, seed)

\* C9: the retarget step for a new shape makes every targetBase the
\* corresponding element of that shape's generator output and changes no
\* position.
C9_RetargetOnShapeChange ==
    [][(shape' # shape /\ shape' \in ShapeType)
         => /\ \E seed \in Seeds : targetPositions' = Generated(shape', seed)
            /\ currentPositions' = currentPositions]_vars

\* reached: the store was retargeted to the heart and no frame has run since
C9_Witness ==
    /\ shape = "HEART"
    /\ sinceRetarget = 0
    /\ \E seed \in Seeds : targetPositions = generateHeartPoints(NumParticles, seed)
    /\ \A seed \in Seeds : currentPositions # generateHeartPoints(NumParticles, seed)

\* C10: with a shape identifier outside ShapeType the whole target stream is
\* a tree generator output, and the Animator can still take its frames.
C10_InvalidShapeFallsBack ==
    shape \notin ShapeType
      => /\ \E seed \in Seeds : targetPositions = generateTreePoints(NumParticles, seed)
         /\ pointsRef # NULL
         /\ frames < MaxFrames => ENABLED (\E delta \in Deltas, seed \in Seeds : Frame(delta, seed))

\* reached: frames have run after a retarget with an invalid identifier
C10_Witness ==
    /\ shape = INVALID_SHAPE
    /\ sinceRetarget >= 1

\* the value the smoothing step of the frame being taken gives coordinate j,
\* before any twinkle offset, with the frame's draws coming from stream seed
Smoothed(j, seed) ==
    Lerp(currentPositions[j],
         AdjustedTarget(targetPositions, j, SpreadFactor(heap[gesture]), seed),
         LerpSpeed(FrameDelta))

\* C11: the value a frame leaves in the position stream, from which the
\* smoothing step of the next frame starts, is the value its own smoothing
\* step produced, without the twinkle offset of that frame.
C11_TwinkleNotFedBack ==
    [][FrameStep
         => \E seed \in Seeds :
              \A j \in DOMAIN currentPositions : currentPositions'[j] = Smoothed(j, seed)]_vars

\* C12: the color stream changes only in a step that commits a new custom
\* color; until then every particle has the color it was created with.
C12_ColorsOnlyOnColorChange ==
    [][colors' # colors => customColor' # customColor]_vars

\* the frame reading record g does not take the spread branch: every adjusted
\* target is its targetBase, whatever the stream
NoSpread(g) ==
    /\ SpreadFactor(g) <= SPREAD_EPS
    /\ \A j \in DOMAIN targetPositions, seed \in Seeds :
         AdjustedTarget(targetPositions, j, SpreadFactor(g), seed) = targetPositions[j]

\* C13: when every gesture sample finds no hand and the gesture loop, React
\* and the Animator keep running, eventually and for ever the openness the
\* Animator reads is 0, so its frames do not take the spread branch and every
\* adjusted target is the targetBase.
C13_GestureFadeOut ==
    <>[](heap[gesture].openness = 0 /\ NoSpread(heap[gesture]))

\* reached: the Animator held the record of an earlier sample of a held fist;
\* the no-hand sample has faded the latest record to 0, its render has handed
\* that record to the Animator, and frames have run
C13_Witness ==
    /\ decayFrom = Interpret(LooseFist).openness
    /\ decayFrom > 0
    /\ noHandRun >= 1
    /\ gesture = gestureRef
    /\ ~renderPending
    /\ heap[gesture].openness = 0
    /\ ~heap[gesture].handDetected
    /\ frames >= 1
=============================================================================
